---- MODULE Spec2Model ----
(***************************************************************************)
(* Model of inst_efficiency: the coincidence-histogram extraction          *)
(* (lib/g2lib.py: g2_extr), the pair statistics extractor                  *)
(* (inst_efficiency.py: read_pairs, read_2pairs) and the monitor loops     *)
(* (print_pairs, monitor_pairs, monitor_2pairs).                           *)
(*                                                                         *)
(* Timestamps are integers in nanoseconds.  Floating-point quantities are  *)
(* exact rationals, extended with the IEEE values nan and +/-inf that      *)
(* numpy scalars produce instead of raising.                               *)
(***************************************************************************)
EXTENDS Integers, Sequences, FiniteSets, TLC

(***************************************************************************)
(* Bounds of the model                                                     *)
(***************************************************************************)
\* largest offset (ns) of an event in the burst at the start of a capture
MaxT == 2
\* largest number of events in that burst, after the first event
MaxBody == 2
\* largest number of histogram bins of a configuration
MaxBins == 4
\* largest number of monitor cycles followed in one run
MaxCycles == 12
\* the same, when the long-term average is on
MaxAvgCycles == 4
\* the count of triggered acquisitions saturates here
TrigCap == 2

\* nanoseconds per second: inttime = t_max * 1e-9
NsPerSec == 1000000000

(***************************************************************************)
(* numpy float arithmetic: rationals n/d in lowest terms, nan, +/-inf      *)
(***************************************************************************)
Abs(x) == IF x < 0 THEN -x ELSE x

Sgn(x) == IF x < 0 THEN -1 ELSE IF x = 0 THEN 0 ELSE 1

RECURSIVE GCD(_, _)
GCD(a, b) == IF b = 0 THEN a ELSE GCD(b, a % b)

NaN == [k |-> "nan", n |-> 0, d |-> 1]

Inf(s) == [k |-> "inf", n |-> s, d |-> 1]

Reduce(n, d, g) == [k |-> "num", n |-> Sgn(d) * (n \div g), d |-> Abs(d) \div g]

\* the rational n/d, d # 0, in lowest terms with a positive denominator
Rat(n, d) == CHOOSE r \in {Reduce(a, b, GCD(Abs(a), Abs(b))) : a \in {n}, b \in {d}} : TRUE

Num(n) == [k |-> "num", n |-> n, d |-> 1]

IsNum(x) == x.k = "num"

IsNaN(x) == x.k = "nan"

\* The operators below take the values of their arguments first (a and b)
\* and then apply the rule of the operation to them.

AddValues(x, y) ==
    IF IsNaN(x) \/ IsNaN(y) THEN NaN
    ELSE IF IsNum(x) /\ IsNum(y) THEN Rat(x.n * y.d + y.n * x.d, x.d * y.d)
    ELSE IF IsNum(x) THEN y
    ELSE IF IsNum(y) THEN x
    ELSE IF x.n = y.n THEN x ELSE NaN

\* x + y
FAdd(x, y) == CHOOSE r \in {AddValues(a, b) : a \in {x}, b \in {y}} : TRUE

NegValue(x) == IF IsNaN(x) THEN NaN ELSE [x EXCEPT !.n = -x.n]

\* -x
FNeg(x) == CHOOSE r \in {NegValue(a) : a \in {x}} : TRUE

\* x - y
FSub(x, y) == FAdd(x, FNeg(y))

MulValues(x, y) ==
    IF IsNaN(x) \/ IsNaN(y) THEN NaN
    ELSE IF IsNum(x) /\ IsNum(y) THEN Rat(x.n * y.n, x.d * y.d)
    ELSE IF x.n = 0 \/ y.n = 0 THEN NaN
    ELSE Inf(Sgn(x.n) * Sgn(y.n))

\* x * y
FMul(x, y) == CHOOSE r \in {MulValues(a, b) : a \in {x}, b \in {y}} : TRUE

DivValues(x, y) ==
    IF IsNaN(x) \/ IsNaN(y) THEN NaN
    ELSE IF IsNum(x) /\ IsNum(y) THEN
        IF y.n # 0 THEN Rat(x.n * y.d, x.d * y.n)
        ELSE IF x.n = 0 THEN NaN ELSE Inf(Sgn(x.n))
    ELSE IF IsNum(x) THEN Num(0)
    ELSE IF IsNum(y) THEN Inf(Sgn(x.n) * (IF y.n < 0 THEN -1 ELSE 1))
    ELSE NaN

\* x / y of numpy scalars: a zero divisor gives inf or nan (with a
\* warning), it does not raise
FDiv(x, y) == CHOOSE r \in {DivValues(a, b) : a \in {x}, b \in {y}} : TRUE

RECURSIVE FracLess(_, _, _, _)
\* a/b < c/d for b, d > 0, by continued fractions (no cross products)
FracLess(a, b, c, d) ==
    LET qa == a \div b
        qc == c \div d
        ra == a % b
        rc == c % d
    IN  IF qa # qc THEN qa < qc
        ELSE IF rc = 0 THEN FALSE
        ELSE IF ra = 0 THEN TRUE
        ELSE FracLess(d, rc, b, ra)

LessValues(x, y) ==
    IF IsNaN(x) \/ IsNaN(y) THEN FALSE
    ELSE IF IsNum(x) /\ IsNum(y) THEN FracLess(x.n, x.d, y.n, y.d)
    ELSE IF IsNum(x) THEN y.n > 0
    ELSE IF IsNum(y) THEN x.n < 0
    ELSE x.n < y.n

\* x < y; every comparison with nan is false
FLess(x, y) == CHOOSE r \in {LessValues(a, b) : a \in {x}, b \in {y}} : TRUE

FEq(x, y) == ~IsNaN(x) /\ ~IsNaN(y) /\ x = y

\* Python's max(a, b): b only if b > a, so a nan first argument is returned
PyMax(a, b) == IF FLess(a, b) THEN b ELSE a

\* round(x) to an integer, halves to the even neighbour; x a rational
RoundInt(x) ==
    LET f == x.n \div x.d
        r == 2 * (x.n % x.d)
    IN  IF r < x.d THEN f
        ELSE IF r > x.d THEN f + 1
        ELSE IF f % 2 = 0 THEN f ELSE f + 1

\* round(x, 1); inf and nan are returned as they are
Round1(x) == IF IsNum(x) THEN Rat(RoundInt(FMul(Num(10), x)), 10) ELSE x

\* round(x, 2)
Round2(x) == IF IsNum(x) THEN Rat(RoundInt(FMul(Num(100), x)), 100) ELSE x

\* int(x) raises ValueError for nan and OverflowError for inf
IntRaises(x) == ~IsNum(x)

(***************************************************************************)
(* Python sequences: index j of the code is element j+1 of the model       *)
(***************************************************************************)
Min2(a, b) == IF a < b THEN a ELSE b

Max2(a, b) == IF a > b THEN a ELSE b

\* a slice bound as Python resolves it: negative counts from the end, then
\* clamped to 0..len
SliceBound(j, len) == IF j < 0 THEN Max2(j + len, 0) ELSE Min2(j, len)

\* s[a:b]
Slice(s, a, b) ==
    LET lo == SliceBound(a, Len(s))
        hi == SliceBound(b, Len(s))
    IN  IF hi <= lo THEN <<>> ELSE SubSeq(s, lo + 1, hi)

\* s[a:]
SliceFrom(s, a) == Slice(s, a, Len(s))

RECURSIVE SumSeq(_)
SumSeq(s) == IF s = <<>> THEN 0 ELSE Head(s) + SumSeq(Tail(s))

\* np.mean of an array of counts: nan (with a warning) for an empty array
Mean(s) == IF s = <<>> THEN NaN ELSE Rat(SumSeq(s), Len(s))

RECURSIVE SelectTimes(_, _)
\* t[(p & (1 << ch)).astype(bool)]
SelectTimes(stream, ch) ==
    IF stream = <<>> THEN <<>>
    ELSE LET e == Head(stream)
             rest == SelectTimes(Tail(stream), ch)
         IN  IF (e.p \div (2 ^ ch)) % 2 = 1 THEN <<e.t>> \o rest ELSE rest

(***************************************************************************)
(* lib/g2lib.py                                                            *)
(***************************************************************************)
\* S15lib.g2lib.delta.delta_loop: bin j counts the pairs (start, stop) with
\* stop - start in [j*bin_width, (j+1)*bin_width), for j in 0..bins-1
delta_loop(t1, t2, bins, bin_width) ==
    [j \in 1..bins |->
        Cardinality({pr \in (1..Len(t1)) \X (1..Len(t2)) :
            LET k == t2[pr[2]] - t1[pr[1]]
            IN  k >= 0 /\ k < bins * bin_width /\ k \div bin_width = j - 1})]

StopTimes_Mutant(t2, min_range, c_stop_delay) ==
    [j \in 1..Len(t2) |-> t2[j] + min_range + c_stop_delay]

\* the stop times handed to delta_loop: t2 - min_range + c_stop_delay
StopTimes(t2, min_range, c_stop_delay) ==
    [j \in 1..Len(t2) |-> t2[j] - min_range + c_stop_delay]

NoEvents_Mutant(t1, t2) == Len(t1) = 0 \/ Len(t2) = 0

\* t1.size == 0 and t2.size == 0
NoEvents(t1, t2) == Len(t1) = 0 /\ Len(t2) = 0

\* g2_extr(filename, bins, bin_width, min_range, channel_start, channel_stop)
\* with normalise = False, c_stop_delay = 0; `file` is the content of filename
g2_extr(file, bins, bin_width, min_range, channel_start, channel_stop) ==
    IF channel_start \notin 0..3 THEN [err |-> "ValueError"]
    ELSE IF channel_stop \notin 0..3 THEN [err |-> "ValueError"]
    ELSE LET t1 == SelectTimes(file, channel_start)
             t2 == SelectTimes(file, channel_stop)
         IN  IF NoEvents(t1, t2) THEN [err |-> "RuntimeError"]
             ELSE [err |-> "none",
                   hist |-> delta_loop(t1, StopTimes(t2, min_range, 0), bins, bin_width),
                   n1 |-> Len(t1),
                   n2 |-> Len(t2),
                   t_max |-> file[Len(file)].t - file[1].t]

(***************************************************************************)
(* Inputs: captures of the device and configurations                       *)
(***************************************************************************)
\* requested integration times (--time), in seconds
DurationSet == {1, 2}

Quarter == NsPerSec \div 4

Event(t, p) == [t |-> t, p |-> p]

\* bursts of at most n further events at distinct offsets lo..MaxT, in
\* time order (a mask with two bits is one event on two channels)
RECURSIVE Bursts(_, _, _)
Bursts(n, lo, masks) ==
    IF n = 0 THEN {<<>>}
    ELSE {<<>>} \cup
         UNION {{<<Event(t, p)>> \o b : b \in Bursts(n - 1, t + 1, masks)} :
                    t \in lo..MaxT, p \in masks}

\* captures: a first event at time 0, a burst of at most n events, and a
\* last event at one of the times `tails` (in quarters of a second) on the
\* channels `last`.  g2_extr reads time differences only.
Captures(n, masks, tails, last) ==
    {<<Event(0, p)>> \o b \o <<Event(k * Quarter, q)>> :
        p \in masks, b \in Bursts(n, 1, masks), k \in tails, q \in last}

\* captures that end with the burst, and the empty capture
ShortCaptures(n, masks) ==
    {<<>>} \cup {<<Event(0, p)>> \o b : p \in masks, b \in Bursts(n, 1, masks)}

\* what the device may write when asked for d seconds: captures of channels
\* 1 and 4 (mask 9: both) that last d or 1.5 d seconds, and a few that are
\* short, last 0.75 d or 2 d seconds, or hold events of channel 2 only
DeviceCaptures ==
    [d \in DurationSet |->
        Captures(MaxBody, {1, 8, 9}, {k * d : k \in {4, 6}} \cap 1..8, {8})
        \cup Captures(0, {1, 2}, {k * d : k \in {3, 4, 8}} \cap 1..8, {2, 8})
        \cup ShortCaptures(1, {1, 8})]

DefaultParams ==
    [script |-> "pairs_once", width |-> 1, bins |-> MaxBins, peak |-> 1,
     left |-> 0, right |-> 0, time |-> 1, darkcount |-> <<0, 0, 0, 0>>,
     ch_start |-> 1, ch_stop |-> 4, accumulate |-> FALSE, histogram |-> 0,
     avgtime |-> 0]

\* configurations of the coincidence window (right >= left)
WindowParams ==
    {[DefaultParams EXCEPT !.bins = b, !.width = w, !.peak = pk,
                           !.left = l, !.right = r] :
        b \in 1..MaxBins, w \in {1, 2}, pk \in {1, 2}, l \in {-1, 0}, r \in {0, 1}}

\* configurations of the channels, valid and invalid
ChannelParams ==
    {[DefaultParams EXCEPT !.ch_start = a, !.ch_stop = b] :
        a \in -4..5, b \in {-4, 0, 2, 4, 5}}

\* configurations of the normalisation
RateParams ==
    {[DefaultParams EXCEPT !.time = d, !.darkcount = <<d1, 0, 0, d4>>,
                           !.accumulate = a, !.ch_start = c] :
        d \in DurationSet, d1 \in {0, 1, 2}, d4 \in {0, 1}, a \in BOOLEAN,
        c \in {1, 4}}

(***************************************************************************)
(* State                                                                   *)
(***************************************************************************)
VARIABLES
    params,     \* the parsed arguments (args), fixed for a run
    pc,         \* position of the program
    call,       \* 0: read_pairs(params); 1, 2: first, second call of read_2pairs
    tmpfile,    \* content of params.tmpfile, written by the device
    sample,     \* <<>> or <<the tuple read_pairs returned>>
    first,      \* read_2pairs: <<>> or <<the tuple of its first read_pairs>>
    err,        \* the exception that ended the program, or "none"
    ntrig,      \* acquisitions triggered since the cycle began (up to TrigCap)
    discarded,  \* whether read_pairs discarded an acquisition in this call
    accepted,   \* read_2pairs: <<>> or <<the capture its first call accepted>>
    g2in,       \* <<>> or <<the arguments of a direct call of g2_extr>>
    g2out,      \* <<>> or <<the result of that call>>
    mon,        \* locals of the monitor loop: i, is_header_logged,
                \* is_initialized, prev, longterm_data
    stdout,     \* rows printed: "H" header, "D" data, "L" long-term
    logfile,    \* rows appended to params.logging
    since       \* the samples (pairs, inttime) added to longterm_data since
                \* its last reset

vars == <<params, pc, call, tmpfile, sample, first, err, ntrig, discarded,
          accepted, g2in, g2out, mon, stdout, logfile, since>>

\* the variables of the monitor loops
monvars == <<mon, stdout, logfile, since>>

\* the variables of a direct call of g2_extr
g2vars == <<g2in, g2out>>

(***************************************************************************)
(* read_pairs                                                              *)
(***************************************************************************)
\* override1_params, override2_params of read_2pairs
Override1(p) ==
    [p EXCEPT !.ch_start = 1, !.ch_stop = 2, !.peak = 219, !.left = -1, !.right = 1]

Override2(p) ==
    [p EXCEPT !.ch_start = 3, !.ch_stop = 4, !.peak = 190, !.left = -1, !.right = 1]

\* the params argument of the current call of read_pairs
RP == IF call = 0 THEN params
      ELSE IF call = 1 THEN Override1(params)
      ELSE Override2(Override1(params))

use_cache_Mutant == FALSE

\* the second call of read_2pairs passes use_cache=True
use_cache == call = 2

\* whether list[j] of a list of length len raises IndexError
IndexError(j, len) == j < -len \/ j >= len

\* list[j]
PyIndex(list, j) == IF j < 0 THEN list[j + Len(list) + 1] ELSE list[j + 1]

InRange_Mutant(inttime, duration) ==
    LET ratio == FDiv(inttime, Num(duration))
    IN  ~FLess(ratio, Rat(3, 4)) /\ ~FLess(Num(2), ratio)

\* 0.75 < inttime / duration < 2
InRange(inttime, duration) ==
    LET ratio == FDiv(inttime, Num(duration))
    IN  FLess(Rat(3, 4), ratio) /\ FLess(ratio, Num(2))

\* inttime = data[4] * 1e-9
IntTime(t_max) == FMul(Num(t_max), Rat(1, NsPerSec))

\* max(100 * pairs / (s1 * s2) ** 0.5, 0.0) for s1, s2 # 0.  A numpy scalar
\* raised to 0.5 is nan when it is negative.  [k |-> "sqrt", c, n, d] is the
\* positive number c * sqrt(n/d).
EffAvg(pairs, s1, s2) ==
    LET x == FMul(s1, s2)
    IN  IF IsNaN(pairs) \/ x.n < 0 THEN NaN
        ELSE IF pairs.n <= 0 THEN Num(0)
        ELSE LET q == FDiv(FMul(pairs, pairs), x)
             IN  [k |-> "sqrt", c |-> 100, n |-> q.n, d |-> q.d]

PairWindow_Mutant(hist, window_size) == Slice(hist, 0, window_size)

\* hist[1 : 1 + window_size]
PairWindow(hist, window_size) == Slice(hist, 1, 1 + window_size)

\* the indices of hist[acc_start:], acc_start = max(bins // 2, 1), in a
\* histogram of `bins` bins
TailBins(bins) ==
    SliceBound(Max2(bins \div 2, 1), bins)..(bins - 1)

\* the indices of hist[1 : 1 + window_size]
WindowBins(bins, window_size) ==
    SliceBound(1, bins)..(SliceBound(1 + window_size, bins) - 1)

\* lines 197-222 of read_pairs: the statistics of an accepted acquisition
Stats(p, data, inttime) ==
    LET window_size == p.right - p.left + 1
        acc_start == Max2(p.bins \div 2, 1)
        darkcount_start == PyIndex(p.darkcount, p.ch_start - 1)
        darkcount_stop == PyIndex(p.darkcount, p.ch_stop - 1)
        acc0 == FMul(Num(window_size), Mean(SliceFrom(data.hist, acc_start)))
        pairs0 == FSub(Num(SumSeq(PairWindow(data.hist, window_size))), acc0)
        s1r == FSub(FDiv(Num(data.n1), inttime), Num(darkcount_start))
        s2r == FSub(FDiv(Num(data.n2), inttime), Num(darkcount_stop))
        pairsr == FDiv(pairs0, inttime)
        accr == FDiv(acc0, inttime)
        s1 == IF p.accumulate THEN FMul(s1r, inttime) ELSE s1r
        s2 == IF p.accumulate THEN FMul(s2r, inttime) ELSE s2r
        pairs == IF p.accumulate THEN FMul(pairsr, inttime) ELSE pairsr
        acc == IF p.accumulate THEN FMul(accr, inttime) ELSE accr
        zero == FEq(s1, Num(0)) \/ FEq(s2, Num(0))
    IN  [hist |-> data.hist, inttime |-> inttime, pairs |-> pairs, acc |-> acc,
         s1 |-> s1, s2 |-> s2,
         e1 |-> IF zero THEN Num(0)
                ELSE PyMax(FDiv(FMul(Num(100), pairs), s2), Num(0)),
         e2 |-> IF zero THEN Num(0)
                ELSE PyMax(FDiv(FMul(Num(100), pairs), s1), Num(0)),
         eavg |-> IF zero THEN Num(0) ELSE EffAvg(pairs, s1, s2)]

\* lines 152-172: unpack the arguments; darkcounts[channel_start] and
\* darkcounts[channel_stop] index a list of four
ReadPairsEnter ==
    /\ pc = "rp_enter"
    /\ IF IndexError(RP.ch_start - 1, 4) \/ IndexError(RP.ch_stop - 1, 4)
       THEN pc' = "error" /\ err' = "IndexError"
       ELSE pc' = "rp_loop" /\ err' = err
    /\ UNCHANGED <<params, call, tmpfile, sample, first, ntrig, discarded,
                   accepted, g2vars, monvars>>

\* lines 175-176: timestamp._call_with_duration writes a capture to tmpfile
Trigger(captures) ==
    /\ pc = "rp_loop"
    /\ ~use_cache
    /\ tmpfile' \in captures[RP.time]
    /\ ntrig' = Min2(ntrig + 1, TrigCap)
    /\ pc' = "rp_extract"
    /\ UNCHANGED <<params, call, sample, first, err, discarded, accepted,
                   g2vars, monvars>>

\* line 175 with use_cache: no acquisition, tmpfile is read as it is
Cached ==
    /\ pc = "rp_loop"
    /\ use_cache
    /\ pc' = "rp_extract"
    /\ UNCHANGED <<params, call, tmpfile, sample, first, err, ntrig, discarded,
                   accepted, g2vars, monvars>>

\* where read_pairs returns to
ReturnPc == IF params.script = "pairs_once" THEN "print"
            ELSE IF params.script = "pairs" THEN "mon_body"
            ELSE IF call = 1 THEN "rp2_second" ELSE "mon2_body"

\* lines 178-222: extract the histogram, check the integration time, then
\* either retry (continue) or compute the statistics and return
Extract ==
    /\ pc = "rp_extract"
    /\ \E data \in {g2_extr(tmpfile, RP.bins, RP.width, RP.peak + RP.left - 1,
                             RP.ch_start - 1, RP.ch_stop - 1)} :
        IF data.err # "none"
        THEN /\ pc' = "error"
             /\ err' = data.err
             /\ UNCHANGED <<sample, discarded, accepted>>
        ELSE IF ~InRange(IntTime(data.t_max), RP.time)
        THEN /\ pc' = "rp_loop"
             /\ discarded' = TRUE
             /\ UNCHANGED <<sample, err, accepted>>
        ELSE /\ pc' = ReturnPc
             /\ sample' = <<Stats(RP, data, IntTime(data.t_max))>>
             /\ accepted' = IF call = 1 THEN <<tmpfile>> ELSE accepted
             /\ UNCHANGED <<err, discarded>>
    /\ UNCHANGED <<params, call, tmpfile, first, ntrig, g2vars, monvars>>

\* print_pairs (script pairs_once): one read_pairs, one line, then the end
PrintPairs ==
    /\ pc = "print"
    /\ pc' = "done"
    /\ UNCHANGED <<params, call, tmpfile, sample, first, err, ntrig, discarded,
                   accepted, g2vars, monvars>>

(***************************************************************************)
(* monitor_pairs                                                           *)
(***************************************************************************)
\* np.iinfo(np.int64).min, the blank of the padded histogram; the model uses
\* a smaller blank that is still below every count
INT_MIN == -(2 ^ 30)

HIST_ROWSIZE == 10

Padded_Mutant(hist) == hist

\* a = np.append(np.array(hist), np.resize(INT_MIN, 10 - a.size % 10))
Padded(hist) ==
    hist \o [j \in 1..(HIST_ROWSIZE - (Len(hist) % HIST_ROWSIZE)) |-> INT_MIN]

\* max of a non-empty sequence of integers
RECURSIVE MaxSeq(_)
MaxSeq(a) ==
    IF Len(a) = 1 THEN a[1] ELSE Max2(a[1], MaxSeq(Tail(a)))

\* np.argmax(a): the first index of the maximum
ArgMax(a) ==
    LET top == MaxSeq(a)
    IN  (CHOOSE j \in 1..Len(a) : a[j] = top /\ \A m \in 1..(j - 1) : a[m] # top) - 1

\* a[pos] of a numpy array raises IndexError outside -len..len-1
ArrayAt(a, pos) == IF pos < 0 THEN a[pos + Len(a) + 1] ELSE a[pos + 1]

\* the scans of lines 280-299 from peakargmax in direction dir (-1, +1):
\* the value of i at which the scan breaks, or -1 if a[pos] raises
RECURSIVE Scan(_, _, _, _, _)
Scan(a, peakargmax, dir, thr, i) ==
    LET pos == peakargmax + dir * (i + 1)
    IN  IF IndexError(pos, Len(a)) THEN -1
        ELSE IF FLess(thr, Num(ArrayAt(a, pos)))
             THEN Scan(a, peakargmax, dir, thr, i + 1)
             ELSE i + 1

\* lines 255-304: the peak locator.  acc_bin = acc / window_size, the scans
\* go on while value > 2 * acc_bin; `i` is the loop variable of the scans,
\* which is also the row counter of the header
PeakLocator(hist, acc, window_size) ==
    LET a == Padded(hist)
        peakargmax == ArgMax(a)
        thr == FMul(Num(2), FDiv(acc, Num(window_size)))
        il == Scan(a, peakargmax, -1, thr, 0)
        ir == IF il = -1 THEN -1 ELSE Scan(a, peakargmax, 1, thr, 0)
    IN  [raises |-> il = -1 \/ ir = -1,
         a |-> a,
         peakvalue |-> MaxSeq(a),
         peakargmax |-> peakargmax,
         likely_left |-> -(il - 1),
         likely_right |-> ir - 1,
         likely_window |-> Slice(a, -(il - 1) + peakargmax, ir + peakargmax),
         i |-> ir]

ZeroLongterm ==
    [count |-> 0, inttime |-> Num(0), pairs |-> Num(0), acc |-> Num(0),
     s1 |-> Num(0), s2 |-> Num(0)]

\* likely: <<>> (the locals likely_left, likely_right are None) or the
\* result of the last run of the peak locator
InitMon ==
    [i |-> 0, is_header_logged |-> FALSE, is_initialized |-> FALSE,
     prev |-> <<>>, longterm_data |-> ZeroLongterm, rows |-> 0,
     likely |-> <<>>]

\* the number of data rows after which a run is no longer followed
RowCap == IF params.avgtime > 0 THEN MaxAvgCycles ELSE MaxCycles

\* line 250-251: while True, call read_pairs(params)
MonitorPairsCall ==
    /\ pc = "mon_top"
    /\ mon.rows < RowCap
    /\ pc' = "rp_enter"
    /\ call' = 0
    /\ ntrig' = 0
    /\ discarded' = FALSE
    /\ UNCHANGED <<params, tmpfile, sample, first, err, accepted, g2vars, monvars>>

\* whether the header is printed in this cycle (line 307), i being the
\* counter after the histogram block
HeaderDue(i, hist_verbosity) == i = 0 \/ hist_verbosity > 1

\* round(100 * p / (s1 * s2) ** 0.5, 1) of numpy scalars: nan for a negative
\* product, a division by 0.0 for a zero product; otherwise the value
\* c * sqrt(n/d) is kept as it is, not rounded
LongtermEffAvg(p, s1, s2) ==
    LET x == FMul(s1, s2)
    IN  IF ~IsNum(p) \/ ~IsNum(x) \/ x.n < 0 THEN NaN
        ELSE IF x.n = 0 THEN FDiv(FMul(Num(100), p), Num(0))
        ELSE LET q == FDiv(FMul(p, p), x)
             IN  IF p.n = 0 THEN Num(0)
                 ELSE [k |-> "sqrt", c |-> 100 * Sgn(p.n), n |-> q.n, d |-> q.d]

\* lines 343-363: the long-term row of an accumulator that reached avgtime;
\* mean_s1, mean_s2 are the locals s1, s2 of lines 348-349
LongtermRow(lt) ==
    LET counts == Num(lt.count)
        p == FDiv(lt.pairs, counts)
        acc == FDiv(lt.acc, counts)
        s1 == FDiv(lt.s1, counts)
        s2 == FDiv(lt.s2, counts)
    IN  [raises |-> IntRaises(p) \/ IntRaises(s1) \/ IntRaises(s2),
         inttime |-> Round2(lt.inttime),
         pairs |-> IF IsNum(p) THEN RoundInt(p) ELSE 0,
         acc |-> Round1(acc),
         s1 |-> IF IsNum(s1) THEN RoundInt(s1) ELSE 0,
         s2 |-> IF IsNum(s2) THEN RoundInt(s2) ELSE 0,
         e1 |-> Round1(FDiv(FMul(Num(100), p), s2)),
         e2 |-> Round1(FDiv(FMul(Num(100), p), s1)),
         eavg |-> LongtermEffAvg(p, s1, s2),
         mean_s1 |-> s1,
         mean_s2 |-> s2]

Threshold_Mutant(inttime, avgtime) == FLess(Num(avgtime), inttime)

\* longterm_data["inttime"] >= params.avgtime
Threshold(inttime, avgtime) == ~FLess(inttime, Num(avgtime))

\* lines 253-367: one pass of the loop body after read_pairs returned
MonitorPairsBody ==
    /\ pc = "mon_body"
    /\ LET s == sample[1]
           hv == params.histogram
           show == hv > 1 \/ (hv = 1 /\ ~mon.is_initialized)
           loc == PeakLocator(s.hist, s.acc, params.right - params.left + 1)
           i1 == IF show THEN loc.i ELSE mon.i
           header == HeaderDue(i1, hv)
           i2 == (IF header THEN 10 ELSE i1) - 1
           out1 == IF header THEN Append(stdout, "H") ELSE stdout
           log1 == IF header /\ ~mon.is_header_logged
                   THEN Append(logfile, "H") ELSE logfile
           hl == mon.is_header_logged \/ header
           avg == params.avgtime > 0
           lt == [count |-> mon.longterm_data.count + 1,
                  inttime |-> FAdd(mon.longterm_data.inttime, s.inttime),
                  pairs |-> FAdd(mon.longterm_data.pairs, s.pairs),
                  acc |-> FAdd(mon.longterm_data.acc, s.acc),
                  s1 |-> FAdd(mon.longterm_data.s1, s.s1),
                  s2 |-> FAdd(mon.longterm_data.s2, s.s2)]
           full == avg /\ Threshold(lt.inttime, params.avgtime)
           row == LongtermRow(lt)
           prev1 == IF full THEN <<row>> ELSE mon.prev
           likely1 == IF show THEN <<loc>> ELSE mon.likely
       IN  IF show /\ loc.raises
           THEN \* a[pos] raised in a scan
                /\ pc' = "error"
                /\ err' = "IndexError"
                /\ mon' = [mon EXCEPT !.is_initialized = TRUE, !.likely = likely1]
                /\ UNCHANGED <<stdout, logfile, since>>
           ELSE IF IntRaises(s.pairs)
           THEN \* int(pairs) of the data row raised, after the header
                /\ pc' = "error"
                /\ err' = "ValueError"
                /\ mon' = [mon EXCEPT !.i = i2, !.is_header_logged = hl,
                                      !.is_initialized = @ \/ show,
                                      !.likely = likely1]
                /\ stdout' = out1
                /\ logfile' = log1
                /\ UNCHANGED since
           ELSE IF full /\ row.raises
           THEN \* int(round(..)) of the long-term row raised
                /\ pc' = "error"
                /\ err' = "ValueError"
                /\ mon' = [mon EXCEPT !.i = i2, !.is_header_logged = hl,
                                      !.is_initialized = @ \/ show,
                                      !.likely = likely1,
                                      !.longterm_data = lt, !.rows = @ + 1]
                /\ stdout' = Append(out1, "D")
                /\ logfile' = Append(log1, "D")
                /\ since' = Append(since, [pairs |-> s.pairs, inttime |-> s.inttime])
           ELSE /\ pc' = "mon_top"
                /\ err' = err
                /\ mon' = [mon EXCEPT !.i = i2, !.is_header_logged = hl,
                                      !.is_initialized = @ \/ show,
                                      !.likely = likely1,
                                      !.longterm_data =
                                          IF ~avg THEN @
                                          ELSE IF full THEN ZeroLongterm ELSE lt,
                                      !.prev = prev1, !.rows = @ + 1]
                /\ stdout' = IF avg /\ prev1 # <<>>
                             THEN Append(Append(out1, "D"), "L")
                             ELSE Append(out1, "D")
                /\ logfile' = Append(log1, "D")
                /\ since' = IF ~avg \/ full THEN <<>>
                            ELSE Append(since, [pairs |-> s.pairs, inttime |-> s.inttime])
    /\ sample' = <<>>
    /\ UNCHANGED <<params, call, tmpfile, first, ntrig, discarded, accepted, g2vars>>

(***************************************************************************)
(* read_2pairs, monitor_2pairs                                             *)
(***************************************************************************)
\* lines 464-465 and 443-445: while True, read_2pairs calls read_pairs with
\* the first override
Monitor2PairsCall ==
    /\ pc = "mon2_top"
    /\ mon.rows < RowCap
    /\ pc' = "rp_enter"
    /\ call' = 1
    /\ ntrig' = 0
    /\ discarded' = FALSE
    /\ first' = <<>>
    /\ accepted' = <<>>
    /\ UNCHANGED <<params, tmpfile, sample, err, g2vars, monvars>>

\* lines 445-447: keep the first result, call read_pairs with the second
\* override and use_cache=True
ReadSecond ==
    /\ pc = "rp2_second"
    /\ first' = sample
    /\ sample' = <<>>
    /\ call' = 2
    /\ pc' = "rp_enter"
    /\ UNCHANGED <<params, tmpfile, err, ntrig, discarded, accepted, g2vars, monvars>>

\* lines 467-491: header every 10 rows, then the data row of both pairs
Monitor2PairsBody ==
    /\ pc = "mon2_body"
    /\ LET header == mon.i = 0
           i2 == (IF header THEN 10 ELSE mon.i) - 1
           out1 == IF header THEN Append(stdout, "H") ELSE stdout
           log1 == IF header /\ ~mon.is_header_logged
                   THEN Append(logfile, "H") ELSE logfile
           hl == mon.is_header_logged \/ header
       IN  IF IntRaises(first[1].pairs) \/ IntRaises(sample[1].pairs)
           THEN /\ pc' = "error"
                /\ err' = "ValueError"
                /\ mon' = [mon EXCEPT !.i = i2, !.is_header_logged = hl]
                /\ stdout' = out1
                /\ logfile' = log1
           ELSE /\ pc' = "mon2_top"
                /\ err' = err
                /\ mon' = [mon EXCEPT !.i = i2, !.is_header_logged = hl,
                                      !.rows = @ + 1]
                /\ stdout' = Append(out1, "D")
                /\ logfile' = Append(log1, "D")
    /\ sample' = <<>>
    /\ UNCHANGED <<params, call, tmpfile, first, ntrig, discarded, accepted,
                   g2vars, since>>

(***************************************************************************)
(* A direct call of g2_extr                                                *)
(***************************************************************************)
G2Call ==
    /\ pc = "g2_call"
    /\ LET a == g2in[1]
       IN  g2out' = <<g2_extr(a.file, a.bins, a.bin_width, a.min_range,
                              a.channel_start, a.channel_stop)>>
    /\ pc' = "done"
    /\ UNCHANGED <<params, call, tmpfile, sample, first, err, ntrig, discarded,
                   accepted, g2in, monvars>>

(***************************************************************************)
(* Specifications                                                          *)
(***************************************************************************)
InitCommon ==
    /\ call = 0
    /\ tmpfile = <<>>
    /\ sample = <<>>
    /\ first = <<>>
    /\ err = "none"
    /\ ntrig = 0
    /\ discarded = FALSE
    /\ accepted = <<>>
    /\ g2out = <<>>
    /\ mon = InitMon
    /\ stdout = <<>>
    /\ logfile = <<>>
    /\ since = <<>>

\* pairs_once: read_pairs on every configuration
Init ==
    /\ params \in WindowParams \cup ChannelParams \cup RateParams
    /\ pc = "rp_enter"
    /\ g2in = <<>>
    /\ InitCommon

Next ==
    \/ ReadPairsEnter
    \/ Trigger(DeviceCaptures)
    \/ Extract
    \/ PrintPairs

Spec == Init /\ [][Next]_vars

\* what the device writes during a monitor run: channel 1 at time 0, at
\* most one event of channel 4 shortly after, the last event after d or
\* 1.5 d seconds; a capture of 0.75 d seconds; a capture of channel 2 only
MonCaptures ==
    [d \in DurationSet |->
        {<<Event(0, 1)>> \o b \o <<Event(k * Quarter, 8)>> :
            b \in {<<>>, <<Event(1, 8)>>, <<Event(1, 9)>>},
            k \in {4 * d, 6 * d} \cap 1..8}
        \cup Captures(0, {1}, {3 * d}, {8})
        \cup Captures(0, {1}, {4 * d}, {1})
        \cup Captures(0, {2}, {4 * d}, {2})]

\* pairs_once on a few configurations, for the termination of read_pairs
RetryParams ==
    {[DefaultParams EXCEPT !.time = d, !.bins = b, !.accumulate = a] :
        d \in DurationSet, b \in {1, MaxBins}, a \in BOOLEAN}

InitRetry ==
    /\ params \in RetryParams
    /\ pc = "rp_enter"
    /\ g2in = <<>>
    /\ InitCommon

\* the program is sequential and takes its next step as long as it has one;
\* what the device writes is not constrained
NextRetry ==
    \/ ReadPairsEnter
    \/ Trigger(MonCaptures)
    \/ Extract
    \/ PrintPairs

FairSpec == InitRetry /\ [][NextRetry]_vars /\ WF_vars(NextRetry)

\* pairs: monitor_pairs at every histogram verbosity
MonParams ==
    {[DefaultParams EXCEPT !.script = "pairs", !.histogram = h, !.bins = b] :
        h \in 0..2, b \in {1, MaxBins}}

InitMonitor ==
    /\ params \in MonParams
    /\ pc = "mon_top"
    /\ g2in = <<>>
    /\ InitCommon

NextMonitor ==
    \/ MonitorPairsCall
    \/ ReadPairsEnter
    \/ Trigger(MonCaptures)
    \/ Extract
    \/ MonitorPairsBody

SpecMonitor == InitMonitor /\ [][NextMonitor]_vars

\* what the device writes during a run with the long-term average
AvgCaptures ==
    [d \in DurationSet |->
        {<<Event(0, 1)>> \o b \o <<Event(k * Quarter, 8)>> :
            b \in {<<>>, <<Event(1, 8)>>}, k \in {4 * d, 6 * d} \cap 1..8}
        \cup Captures(0, {1}, {3 * d}, {8})]

\* pairs with --avgtime
AvgParams ==
    {[DefaultParams EXCEPT !.script = "pairs", !.avgtime = a,
                           !.darkcount = <<0, 0, 0, k>>] :
        a \in {2, 3}, k \in {0, 1}}

InitAvg ==
    /\ params \in AvgParams
    /\ pc = "mon_top"
    /\ g2in = <<>>
    /\ InitCommon

NextAvg ==
    \/ MonitorPairsCall
    \/ ReadPairsEnter
    \/ Trigger(AvgCaptures)
    \/ Extract
    \/ MonitorPairsBody

SpecAvg == InitAvg /\ [][NextAvg]_vars

\* captures for the two hardcoded pairs: channels 1-2 with delays around
\* 219 ns, channels 3-4 with delays around 190 ns
TwoPairCaptures ==
    [d \in DurationSet |->
        {<<Event(0, p)>> \o b \o <<Event(k * d * Quarter, q)>> :
            p \in {1, 4, 5},
            b \in {<<>>, <<Event(190, 8)>>, <<Event(219, 2)>>,
                   <<Event(189, 8), Event(218, 2)>>, <<Event(191, 10)>>},
            k \in {3, 4}, q \in {1, 4}}]

TwoPairParams ==
    {[DefaultParams EXCEPT !.script = "2pairs", !.bins = b, !.time = d] :
        b \in {1, MaxBins}, d \in DurationSet}

Init2Pairs ==
    /\ params \in TwoPairParams
    /\ pc = "mon2_top"
    /\ g2in = <<>>
    /\ InitCommon

Next2Pairs ==
    \/ Monitor2PairsCall
    \/ ReadPairsEnter
    \/ Trigger(TwoPairCaptures)
    \/ Cached
    \/ Extract
    \/ ReadSecond
    \/ Monitor2PairsBody

Spec2Pairs == Init2Pairs /\ [][Next2Pairs]_vars

\* largest number of monitor cycles followed in a run of the peak locator
MaxPeakCycles == 2

\* a capture of channels 1 and 4 that ends at `last` ns: one start at 0 and
\* stops after 1 ns, 4, 5 and 6 ns, 8 ns and 12 ns.  With bins 4 ns wide
\* from delay 0 its histogram is 1, 3, 1, 1: a spike of 3 in bin 1 on a
\* floor of 1
SpikeCapture(last) ==
    <<Event(0, 1), Event(1, 8), Event(4, 8), Event(5, 8), Event(6, 8),
      Event(8, 8), Event(12, 8), Event(last, 8)>>

\* what the device writes during a run with the histogram shown: short
\* bursts on channels 1 and 4 in a capture of d seconds, and the spike in
\* captures of 0.9 d, d and 1.05 d seconds
PeakCaptures ==
    [d \in DurationSet |->
        Captures(MaxBody, {1, 8}, {4 * d}, {8})
        \cup {SpikeCapture(k * d * (NsPerSec \div 20)) : k \in {18, 20, 21}}]

\* pairs with --histogram, over bins, bin widths, windows, durations and
\* --accumulate
PeakParams ==
    {[DefaultParams EXCEPT !.script = "pairs", !.histogram = h, !.bins = b,
                           !.width = w, !.time = d, !.accumulate = a,
                           !.left = -r, !.right = r] :
        h \in {1, 2}, b \in 1..MaxBins, w \in {1, 4}, d \in DurationSet,
        a \in BOOLEAN, r \in {0, 1}}

InitPeak ==
    /\ params \in PeakParams
    /\ pc = "mon_top"
    /\ g2in = <<>>
    /\ InitCommon

NextPeak ==
    \/ MonitorPairsCall /\ mon.rows < MaxPeakCycles
    \/ ReadPairsEnter
    \/ Trigger(PeakCaptures)
    \/ Extract
    \/ MonitorPairsBody

SpecPeak == InitPeak /\ [][NextPeak]_vars

\* the scenario of the histogram test: starts 0, 100, 200 on channel 1,
\* stops 50, 150, 250 on channel 2, bin_width 10, bins 20, min_range 40
ScenarioCall ==
    [file |-> <<Event(0, 1), Event(50, 2), Event(100, 1), Event(150, 2),
                Event(200, 1), Event(250, 2)>>,
     bins |-> 20, bin_width |-> 10, min_range |-> 40,
     channel_start |-> 0, channel_stop |-> 1]

G2Calls ==
    {ScenarioCall} \cup
    {[file |-> f, bins |-> b, bin_width |-> w, min_range |-> m,
      channel_start |-> c1, channel_stop |-> c2] :
        f \in ShortCaptures(MaxBody, {1, 2, 3, 4}) \cup Captures(0, {1, 2}, {4}, {2}),
        b \in 1..MaxBins, w \in {1, 2}, m \in -2..1,
        c1 \in {0}, c2 \in {-1, 0, 1, 4}}

InitG2 ==
    /\ params = [DefaultParams EXCEPT !.script = "g2"]
    /\ pc = "g2_call"
    /\ g2in \in {<<a>> : a \in G2Calls}
    /\ InitCommon

NextG2 == G2Call

SpecG2 == InitG2 /\ [][NextG2]_vars

(***************************************************************************)
(* Properties                                                              *)
(***************************************************************************)
\* duration (ns) between the first and the last event of a capture
Span(file) == file[Len(file)].t - file[1].t

\* 0.75 < span / (d seconds) < 2, in whole nanoseconds
SpanInRange(file, d) ==
    LET q == Span(file) \div Quarter
        r == Span(file) % Quarter
    IN  (q > 3 * d \/ (q = 3 * d /\ r > 0)) /\ q < 8 * d

\* whether the capture has an event on channel index ch
HasEvent(file, ch) == \E j \in 1..Len(file) : (file[j].p \div (2 ^ ch)) % 2 = 1

\* the capture has no event on either channel of the configuration p
BothEmpty(file, p) == ~HasEvent(file, p.ch_start - 1) /\ ~HasEvent(file, p.ch_stop - 1)

ValidChannels(p) == p.ch_start \in 1..4 /\ p.ch_stop \in 1..4

\* read_pairs has returned to its caller
Returned == pc \in {"print", "done", "mon_body", "rp2_second", "mon2_body"}

\* C1: every sample read_pairs returns comes from a capture whose
\* integration time satisfies 0.75 < inttime/duration < 2, both strict, and
\* carries that integration time; a capture outside the range is never
\* returned and raises nothing: the program stays in the retry loop
C1_InTimeRange ==
    /\ sample # <<>> =>
        /\ SpanInRange(tmpfile, RP.time)
        /\ sample[1].inttime.k = "num"
        /\ 3 * RP.time * sample[1].inttime.d < 4 * sample[1].inttime.n
        /\ sample[1].inttime.n < 2 * RP.time * sample[1].inttime.d
    /\ (ntrig > 0 /\ ValidChannels(RP) /\ ~BothEmpty(tmpfile, RP)
            /\ ~SpanInRange(tmpfile, RP.time))
        => pc \in {"rp_extract", "rp_loop"} /\ err = "none" /\ sample = <<>>

\* C1 witness: read_pairs returned a sample after discarding an acquisition
C1_Witness == pc = "print" /\ discarded /\ sample # <<>>

\* C2: a call of read_pairs eventually returns or raises, whatever the
\* device writes
C2_ReadPairsEnds == (pc = "rp_enter") ~> (Returned \/ pc = "error")

NonNegative(e) == e.k \in {"num", "sqrt"} /\ e.n >= 0

\* max(0, x) of a number x
ClampZero(x) == IF x.k = "num" /\ x.n > 0 THEN x ELSE Num(0)

\* C3: in a returned sample (of a histogram with a tail to estimate the
\* accidentals from), zero s1 or s2 gives e1 = e2 = eavg = 0, otherwise
\* e1 = max(0, 100 pairs/s2), e2 = max(0, 100 pairs/s1),
\* eavg = max(0, 100 pairs/sqrt(s1 s2)), and all three are numbers >= 0
C3_Efficiencies ==
    (sample # <<>> /\ RP.bins >= 2) =>
        LET s == sample[1]
        IN  /\ NonNegative(s.e1) /\ NonNegative(s.e2) /\ NonNegative(s.eavg)
            /\ IF s.s1 = Num(0) \/ s.s2 = Num(0)
               THEN s.e1 = Num(0) /\ s.e2 = Num(0) /\ s.eavg = Num(0)
               ELSE /\ s.e1 = ClampZero(FDiv(FMul(Num(100), s.pairs), s.s2))
                    /\ s.e2 = ClampZero(FDiv(FMul(Num(100), s.pairs), s.s1))

RECURSIVE SumOver(_, _)
\* sum of h[j+1] over the indices j of the set js
SumOver(h, js) ==
    IF js = {} THEN 0
    ELSE LET j == CHOOSE x \in js : TRUE
         IN  h[j + 1] + SumOver(h, js \ {j})

\* C4: window_size = right - left + 1, and the pair count before the
\* normalisation is the sum of the bins 1 .. window_size minus window_size
\* times the mean of the bins from max(bins // 2, 1) on (nan if there is
\* no such bin)
C4_PairCount ==
    sample # <<>> =>
        LET s == sample[1]
            bins == Len(s.hist)
            window_size == RP.right - RP.left + 1
            window == {j \in 0..(bins - 1) : 1 <= j /\ j < 1 + window_size}
            first_acc == IF bins \div 2 > 1 THEN bins \div 2 ELSE 1
            tail == {j \in 0..(bins - 1) : j >= first_acc}
            raw == IF RP.accumulate THEN s.pairs ELSE FMul(s.pairs, s.inttime)
        IN  IF tail = {} THEN raw = NaN
            ELSE FMul(raw, Num(Cardinality(tail))) =
                 Num(Cardinality(tail) * SumOver(s.hist, window)
                     - window_size * SumOver(s.hist, tail))

\* C4 witness: a sample of a one-bin window (left = right = 0) whose bin 1
\* and whose accidental estimate are both positive
C4_Witness ==
    /\ sample # <<>>
    /\ RP.left = 0 /\ RP.right = 0
    /\ Len(sample[1].hist) >= 2
    /\ sample[1].hist[2] > 0
    /\ sample[1].acc.n > 0
    /\ sample[1].pairs.n # 0

\* the pairs (start event, stop event) of a call of g2_extr whose delay
\* stop - start is in [lo, hi)
DelayPairs(a, lo, hi) ==
    {pr \in (1..Len(a.file)) \X (1..Len(a.file)) :
        /\ (a.file[pr[1]].p \div (2 ^ a.channel_start)) % 2 = 1
        /\ (a.file[pr[2]].p \div (2 ^ a.channel_stop)) % 2 = 1
        /\ a.file[pr[2]].t - a.file[pr[1]].t >= lo
        /\ a.file[pr[2]].t - a.file[pr[1]].t < hi}

\* C5: the histogram g2_extr returns has `bins` bins, bin i counts the
\* pairs with delay in [min_range + i*bin_width, min_range + (i+1)*bin_width)
\* once each, so its sum is the number of pairs with a delay in
\* [min_range, min_range + bins*bin_width), at most len(start)*len(stop)
C5_Histogram ==
    (g2out # <<>> /\ g2out[1].err = "none") =>
        LET a == g2in[1]
            h == g2out[1].hist
        IN  /\ Len(h) = a.bins
            /\ \A i \in 0..(a.bins - 1) :
                h[i + 1] = Cardinality(DelayPairs(a,
                               a.min_range + i * a.bin_width,
                               a.min_range + (i + 1) * a.bin_width))
            /\ SumSeq(h) = Cardinality(DelayPairs(a, a.min_range,
                               a.min_range + a.bins * a.bin_width))
            /\ SumSeq(h) <= g2out[1].n1 * g2out[1].n2

\* C5 witness: the scenario gives 3 counts in bin 1 and none in bin 0
C5_Witness ==
    /\ g2out # <<>>
    /\ g2in[1] = ScenarioCall
    /\ g2out[1].hist[2] = 3
    /\ g2out[1].hist[1] = 0

RECURSIVE SumField(_, _)
\* sum of the pairs (f = "pairs") or the inttime of a sequence of samples
SumField(ss, f) ==
    IF ss = <<>> THEN Num(0) ELSE FAdd(Head(ss)[f], SumField(Tail(ss), f))

\* C6: with avgtime > 0, a cycle resets the long-term accumulator to zeros
\* exactly if the integration time accumulated since the last reset, this
\* sample included, is >= avgtime; after the cycle it is < avgtime; and
\* the row made at a reset shows round(sum(pairs) / count) of those samples
C6_Longterm ==
    [][(pc = "mon_body" /\ pc' = "mon_top" /\ params.avgtime > 0) =>
        LET all == Append(since, [pairs |-> sample[1].pairs,
                                  inttime |-> sample[1].inttime])
            total == SumField(all, "inttime")
            reached == ~FLess(total, Num(params.avgtime))
        IN  /\ reached <=> mon'.longterm_data = ZeroLongterm
            /\ FLess(mon'.longterm_data.inttime, Num(params.avgtime))
            /\ ~reached => /\ mon'.longterm_data.inttime = total
                           /\ mon'.longterm_data.count = Len(all)
                           /\ mon'.prev = mon.prev
            /\ reached => /\ mon'.prev # <<>>
                          /\ mon'.prev[1].pairs =
                                RoundInt(FDiv(SumField(all, "pairs"), Num(Len(all))))
                          /\ mon'.prev[1].inttime = Round2(total)]_vars

\* C6 witness: a reset after two samples (1 s and 1.5 s) with pairs
C6_Witness ==
    /\ pc = "mon_top"
    /\ mon.prev # <<>>
    /\ mon.prev[1].inttime = Rat(5, 2)
    /\ mon.prev[1].pairs # 0
    /\ mon.longterm_data = ZeroLongterm

\* C7: the header is printed before the first data row and again after
\* every 10 data rows, and it is written to the log once, before any data
\* row (monitor_pairs without the continuous histogram)
C7_Header ==
    params.histogram <= 1 =>
        /\ \A j \in 1..Len(stdout) :
            stdout[j] # "L" => (stdout[j] = "H" <=> j % 11 = 1)
        /\ \A j \in 1..Len(logfile) : logfile[j] = "H" <=> j = 1

\* C8: the second read_pairs of read_2pairs triggers no acquisition and
\* reads the capture the first one accepted; a cycle whose first
\* acquisition is accepted has triggered the device exactly once
C8_OneAcquisition ==
    [][/\ call' = 2 => accepted' = <<tmpfile'>>
       /\ (call = 2 /\ call' = 2) => (ntrig' = ntrig /\ tmpfile' = tmpfile)
       /\ (pc' = "mon2_body" /\ ~discarded') =>
            (ntrig' = 1 /\ sample'[1].inttime = first'[1].inttime)]_vars

\* C8 witness: both extractions of a cycle done after one acquisition
C8_Witness ==
    /\ pc = "mon2_body"
    /\ ~discarded
    /\ ntrig = 1
    /\ first # <<>> /\ sample # <<>>
    /\ SumSeq(first[1].hist) > 0
    /\ SumSeq(sample[1].hist) > 0

\* C9: with both channels of the configuration empty in the capture the
\* extraction raises RuntimeError, and only then; read_pairs does not
\* retry it, no row is printed or logged for the cycle, and the program
\* takes no further step
C9_NoEvents ==
    [][/\ (pc = "rp_extract" /\ BothEmpty(tmpfile, RP)) =>
            /\ pc' = "error" /\ err' = "RuntimeError"
            /\ stdout' = stdout /\ logfile' = logfile /\ sample' = <<>>
       /\ (pc = "rp_extract" /\ ~BothEmpty(tmpfile, RP)) => err' = "none"
       /\ pc # "error"]_vars

\* C9 witness: a monitor run ended by RuntimeError after printed rows
C9_Witness ==
    /\ pc = "error" /\ err = "RuntimeError"
    /\ mon.rows >= 1
    /\ stdout[Len(stdout)] = "D"

\* C10: with ch_start or ch_stop outside 1..4, read_pairs fails with
\* ValueError and nothing else, before any acquisition is triggered
C10_InvalidChannel ==
    ~ValidChannels(RP) =>
        /\ ntrig = 0
        /\ ~Returned
        /\ err \in {"none", "ValueError"}

\* the histogram is one spike on a flat floor lower than half the spike
IsSpike(h) ==
    /\ Len(h) >= 2
    /\ \E sp \in 1..Len(h) :
        /\ \A j \in 1..Len(h) : j # sp => 2 * h[j] < h[sp]
        /\ \A j, m \in (1..Len(h)) \ {sp} : h[j] = h[m]

\* the histogram of the cycle in which the peak locator last ran
LocatedHist == SubSeq(mon.likely[1].a, 1, params.bins)

\* C11: when the histogram is one spike on a flat floor below half the
\* spike, the scans of the peak locator stop at once: likely_left = 0,
\* likely_right = 0 and the likely window is the spike bin alone, for
\* every accepted integration time and with or without --accumulate
C11_IsolatedSpike ==
    (mon.likely # <<>> /\ IsSpike(LocatedHist)) =>
        /\ ~mon.likely[1].raises
        /\ mon.likely[1].likely_left = 0
        /\ mon.likely[1].likely_right = 0
        /\ mon.likely[1].likely_window = <<mon.likely[1].peakvalue>>

\* C14: both scans of the peak locator end without an IndexError, and
\* likely_left <= 0 <= likely_right with peak + likely_left >= 0 and
\* peak + likely_right <= bins - 1
C14_ScanBounds ==
    /\ err # "IndexError"
    /\ mon.likely # <<>> =>
        LET l == mon.likely[1]
        IN  /\ ~l.raises
            /\ l.likely_left <= 0
            /\ 0 <= l.likely_right
            /\ l.peakargmax + l.likely_left >= 0
            /\ l.peakargmax + l.likely_right <= params.bins - 1

\* C14 witness: the peak locator ran on a histogram whose maximum is in the
\* last of its bins, so that the right scan starts on the padding
C14_Witness ==
    /\ mon.likely # <<>>
    /\ params.bins >= 3
    /\ mon.likely[1].peakvalue >= 1
    /\ mon.likely[1].peakargmax = params.bins - 1
    /\ mon.likely[1].likely_right = 0

\* C12: a long-term row whose averaged singles rate s1 or s2 is exactly
\* zero shows the efficiencies 0, not inf or nan
C12_LongtermZeroSingles ==
    (mon.prev # <<>> /\ (FEq(mon.prev[1].mean_s1, Num(0))
                          \/ FEq(mon.prev[1].mean_s2, Num(0)))) =>
        /\ mon.prev[1].e1 = Num(0)
        /\ mon.prev[1].e2 = Num(0)
        /\ mon.prev[1].eavg = Num(0)

\* the call of g2_extr that read_pairs makes on the capture in tmpfile
ExtractCall ==
    [file |-> tmpfile, bins |-> RP.bins, bin_width |-> RP.width,
     min_range |-> RP.peak + RP.left - 1,
     channel_start |-> RP.ch_start - 1, channel_stop |-> RP.ch_stop - 1]

\* C13: for every bin width, the bins 1 .. window_size summed for the pair
\* count hold exactly the pairs with a delay in the configured window
\* [peak + left, peak + right], whether peak, left and right are read as
\* delays in ns or as positions in units of the bin width (histograms long
\* enough to hold the window)
C13_WindowAtIndexOne ==
    (sample # <<>> /\ RP.bins >= RP.right - RP.left + 2) =>
        LET summed == SumSeq(PairWindow(sample[1].hist, RP.right - RP.left + 1))
        IN  \/ summed = Cardinality(DelayPairs(ExtractCall, RP.peak + RP.left,
                                                RP.peak + RP.right + 1))
            \/ summed = Cardinality(DelayPairs(ExtractCall,
                                                (RP.peak + RP.left) * RP.width,
                                                (RP.peak + RP.right + 1) * RP.width))

\* C15: in a returned sample the bins of the accidental estimate,
\* max(bins // 2, 1) .. bins - 1, are not empty and none of them is a bin
\* of the window 1 .. window_size, and the estimate is a number
C15_AccidentalTail ==
    sample # <<>> =>
        /\ TailBins(Len(sample[1].hist)) # {}
        /\ TailBins(Len(sample[1].hist))
               \cap WindowBins(Len(sample[1].hist), RP.right - RP.left + 1) = {}
        /\ IsNum(sample[1].acc)

====
